---- MODULE Spec2Model ----
(***************************************************************************)
(* Model of portconews.py: the Streamlit page that loads the portfolio     *)
(* news sheet (load_news_data, cached for one hour), builds the sidebar    *)
(* filters, filters and displays the rows, and offers a Refresh button.    *)
(*                                                                         *)
(* Timestamps are hours since 2024-01-01 00:00; a calendar date is the     *)
(* timestamp divided by 24.  The sheet's dates are in the past of the      *)
(* page clock, which counts seconds since the server started.              *)
(***************************************************************************)
EXTENDS Integers, Sequences, FiniteSets

VARIABLES source,          \* the outside world: secrets, credentials.json, the spreadsheet
          tieRank,         \* the build's order among equal sort keys (quicksort is not stable)
          now,             \* page clock, seconds
          cache,           \* st.cache_data entry of load_news_data
          lastFetch,       \* the most recent real invocation of load_news_data
          page,            \* what the last script run produced
          rerunRequested   \* st.experimental_rerun() was called and the rerun has not run yet

vars == <<source, tieRank, now, cache, lastFetch, page, rerunRequested>>

-----------------------------------------------------------------------------
\* Bounds of the model
MaxRows == 2
MaxTime == 7300

\* @st.cache_data(ttl=3600)
TTL == 3600

\* pandas' null timestamp (errors='coerce')
NaT == -1

ExpectedColumns == {"Date", "Company", "Title", "Link", "Category"}

-----------------------------------------------------------------------------
\* The sheets the model draws from: worksheet.get_all_records() is a list of
\* dicts that all have the header row's keys.

DateCells == {"2024-01-01 00:00", "2024-01-01 12:00", "2024-01-02 00:00", "n/a"}
Tags == {<<"Acme", "News">>, <<"Bolt", "PR">>}
TitleOf(i) == IF i = 1 THEN "t1" ELSE IF i = 2 THEN "t2" ELSE IF i = 3 THEN "t3" ELSE "t4"

UpstreamColumnSets ==
    { {"Date", "Title"},
      {"Company", "Title", "Link", "Category"},
      ExpectedColumns,
      ExpectedColumns \cup {"Description"} }

FullRow(i, d, tag) ==
    [Date |-> d, Company |-> tag[1], Title |-> TitleOf(i), Link |-> "http://x",
     Category |-> tag[2], Description |-> "text"]

Project(r, cols) == [c \in cols |-> r[c]]

SheetsOfLen(n) ==
    { [i \in 1..n |-> Project(FullRow(i, ds[i], ts[i]), cols)] :
        ds \in [1..n -> DateCells], ts \in [1..n -> Tags], cols \in UpstreamColumnSets }

Sheets == UNION { SheetsOfLen(n) : n \in 0..MaxRows }

-----------------------------------------------------------------------------
\* A table: its column names, its rows in order, and whether the Date column
\* holds timestamps (dtype datetime64) rather than text.
\* pd.DataFrame(data): the columns are the keys of the records; no records, no columns.
DataFrame(data) ==
    [cols |-> IF data = <<>> THEN {} ELSE DOMAIN data[1], rows |-> data,
     datetime |-> FALSE]

\* pd.DataFrame(columns=[...five names...])
EmptyFrame == [cols |-> ExpectedColumns, rows |-> <<>>, datetime |-> FALSE]

\* Mutant: the missing columns are not added
AddMissingNothing(df, missing) == df

\* Mutant: the missing columns are filled with a placeholder
AddMissingPlaceholder(df, missing) ==
    [cols |-> df.cols \cup missing, datetime |-> df.datetime,
     rows |-> [i \in DOMAIN df.rows |->
                 [c \in df.cols \cup missing |->
                     IF c \in df.cols THEN df.rows[i][c] ELSE "N/A"]]]

\* df[col] = "" for every missing column
AddMissing(df, missing) ==
    [cols |-> df.cols \cup missing, datetime |-> df.datetime,
     rows |-> [i \in DOMAIN df.rows |->
                 [c \in df.cols \cup missing |->
                     IF c \in df.cols THEN df.rows[i][c] ELSE ""]]]

\* Mutant: an unparsable cell becomes the epoch of the model
ParseDateEpoch(s) ==
    IF s = "2024-01-01 00:00" THEN 0
    ELSE IF s = "2024-01-01 12:00" THEN 12
    ELSE IF s = "2024-01-02 00:00" THEN 24
    ELSE 0

\* Mutant: an unparsable cell becomes the time of the call
ParseDateNow(s) ==
    IF s = "2024-01-01 00:00" THEN 0
    ELSE IF s = "2024-01-01 12:00" THEN 12
    ELSE IF s = "2024-01-02 00:00" THEN 24
    ELSE 48 + now

\* pd.to_datetime(value, errors='coerce') on one cell
ParseDate(s) ==
    IF s = "2024-01-01 00:00" THEN 0
    ELSE IF s = "2024-01-01 12:00" THEN 12
    ELSE IF s = "2024-01-02 00:00" THEN 24
    ELSE NaT

ToDatetime(df) ==
    [cols |-> df.cols, datetime |-> TRUE,
     rows |-> [i \in DOMAIN df.rows |->
                 [c \in df.cols |->
                     IF c = "Date" THEN ParseDate(df.rows[i][c]) ELSE df.rows[i][c]]]]

\* Among equal keys the default kind='quicksort' promises no order; the build decides.
TieOrder(i, j) == tieRank[i] < tieRank[j]

\* Row i comes before row j in df.sort_values(by="Date", ascending=False):
\* later dates first, NaT rows last in their original order.
Precedes(rows, i, j) ==
    LET di == rows[i]["Date"]
        dj == rows[j]["Date"]
    IN  IF di = NaT /\ dj = NaT THEN i < j
        ELSE IF di = NaT THEN FALSE
        ELSE IF dj = NaT THEN TRUE
        ELSE IF di # dj THEN di > dj
        ELSE TieOrder(i, j)

\* The source position of the row that lands at output position k
SortIndex(rows) ==
    [k \in DOMAIN rows |->
        CHOOSE i \in DOMAIN rows :
            Cardinality({j \in DOMAIN rows : Precedes(rows, j, i)}) = k - 1]

SortValues(df) ==
    LET idx == SortIndex(df.rows)
    IN  [cols |-> df.cols, datetime |-> df.datetime,
         rows |-> [k \in DOMAIN df.rows |-> df.rows[idx[k]]]]

-----------------------------------------------------------------------------
\* st.error / st.warning calls made inside load_news_data
Msg(level, text, cols) == [level |-> level, text |-> text, cols |-> cols]
CredentialsError == Msg("error", "Google Sheets API credentials not found", {})
LoadError        == Msg("error", "Error loading data from Google Sheets", {})
MissingWarning(missing) == Msg("warning", "Missing columns in Google Sheet", missing)

HasError(msgs) == \E i \in DOMAIN msgs : msgs[i].level = "error"

Result(raised, df, msgs) == [raised |-> raised, df |-> df, msgs |-> msgs]

\* Lines 36-48: "ok", "absent" (neither source there: report and return), or "exception"
AcquireCredentials(src) ==
    IF src.secrets = "raises" THEN "exception"
    ELSE IF src.secrets = "present" THEN "ok"
    ELSE IF src.credFile = "missing" THEN "absent"
    ELSE IF src.credFile = "invalid" THEN "exception"
    ELSE "ok"

\* Lines 64-79 on the rows read
Normalize(data) ==
    LET df      == DataFrame(data)
        missing == ExpectedColumns \ df.cols
        df2     == IF missing # {} THEN AddMissing(df, missing) ELSE df
        warn    == IF missing # {} THEN <<MissingWarning(missing)>> ELSE <<>>
        df3     == IF "Date" \in df2.cols /\ df2.rows # <<>>
                   THEN SortValues(ToDatetime(df2))
                   ELSE df2
    IN  Result(FALSE, df3, warn)

\* The except clause of lines 81-84
Except == Result(FALSE, EmptyFrame, <<LoadError>>)

\* The body of the try block; raised = TRUE stands for an exception leaving it
TryBody(src) ==
    LET cred == AcquireCredentials(src)
    IN  IF cred = "absent" THEN Result(FALSE, EmptyFrame, <<CredentialsError>>)
        ELSE IF cred = "exception" THEN Result(TRUE, EmptyFrame, <<>>)
        ELSE IF src.remote # "ok" THEN Result(TRUE, EmptyFrame, <<>>)
        ELSE Normalize(src.data)

\* Mutant: no except clause
LoadNoExcept(src) == TryBody(src)

load_news_data(src) ==
    LET r == TryBody(src)
    IN  IF r.raised THEN Except ELSE r

-----------------------------------------------------------------------------
\* @st.cache_data(ttl=3600): one entry, since the function has no arguments
NoResult == Result(FALSE, EmptyFrame, <<>>)
NoCache  == [present |-> FALSE, value |-> NoResult, storedAt |-> 0]

\* Mutant: an entry of age ttl is still served
CacheHitInclusive(c, t) == c.present /\ t - c.storedAt <= TTL

CacheHit(c, t) == c.present /\ t - c.storedAt < TTL

\* Mutant: only a successful load is stored
CachePutSuccessOnly(c, r, t) ==
    IF r.raised \/ HasError(r.msgs) THEN c
    ELSE [present |-> TRUE, value |-> r, storedAt |-> t]

\* What a finished call leaves in the cache: any returned value is stored,
\* an exception is not
CachePut(c, r, t) ==
    IF r.raised THEN c ELSE [present |-> TRUE, value |-> r, storedAt |-> t]

\* st.cache_data.clear()
CacheClear(c) == NoCache

-----------------------------------------------------------------------------
\* Sidebar, lines 92-120
Days == 0..1
DayOf(ts) == ts \div 24

ColumnValues(df, col) == { df.rows[i][col] : i \in DOMAIN df.rows }

\* The options of a selectbox
Options(df, col) ==
    IF col \in df.cols /\ df.rows # <<>> THEN {"All"} \cup ColumnValues(df, col)
    ELSE {"All"}

\* news_df["Date"].min() / .max(): NaT is skipped, and is the answer when nothing is left
DateMin(df) ==
    LET ds == ColumnValues(df, "Date") \ {NaT}
    IN  IF ds = {} THEN NaT ELSE CHOOSE d \in ds : \A e \in ds : d <= e

DateMax(df) ==
    LET ds == ColumnValues(df, "Date") \ {NaT}
    IN  IF ds = {} THEN NaT ELSE CHOOSE d \in ds : \A e \in ds : d >= e

HasDateInput(df) == "Date" \in df.cols /\ df.rows # <<>>

\* st.date_input(value=(min.date(), max.date())) cannot take NaT: it raises
SidebarRaises(df) ==
    HasDateInput(df) /\ (DateMin(df) = NaT \/ DateMax(df) = NaT)

\* date_range = None, or what the widget returns: () , (start,) or (start, end)
NoDateRange == <<>>
DateRanges(df) ==
    IF HasDateInput(df)
    THEN {<<>>} \cup { <<a>> : a \in Days }
                \cup { r \in Days \X Days : r[1] <= r[2] }
    ELSE {NoDateRange}

Selections(df) ==
    [company : Options(df, "Company"), category : Options(df, "Category"),
     dateRange : DateRanges(df)]

NoSelection == [company |-> "All", category |-> "All", dateRange |-> NoDateRange]

-----------------------------------------------------------------------------
\* Apply filters, lines 126-139
CompanyMask(r, sel) == sel.company = "All" \/ r["Company"] = sel.company
CategoryMask(r, sel) == sel.category = "All" \/ r["Category"] = sel.category

\* Mutant: the end date is excluded
DateMaskExclusive(r, sel) ==
    \/ Len(sel.dateRange) # 2
    \/ /\ r["Date"] # NaT
       /\ DayOf(r["Date"]) >= sel.dateRange[1]
       /\ DayOf(r["Date"]) < sel.dateRange[2]

\* A comparison with a NaT .dt.date element is False
DateMask(r, sel) ==
    \/ Len(sel.dateRange) # 2
    \/ /\ r["Date"] # NaT
       /\ DayOf(r["Date"]) >= sel.dateRange[1]
       /\ DayOf(r["Date"]) <= sel.dateRange[2]

ApplyFilters(df, sel) ==
    LET byCompany(r)  == "Company" \notin df.cols \/ CompanyMask(r, sel)
        byCategory(r) == "Category" \notin df.cols \/ CategoryMask(r, sel)
        byDate(r)     == "Date" \notin df.cols \/ DateMask(r, sel)
    IN  SelectSeq(SelectSeq(SelectSeq(df.rows, byCompany), byCategory), byDate)

-----------------------------------------------------------------------------
\* The states of the outside world
Environments ==
    [secrets : {"present", "absent", "raises"},
     credFile : {"valid", "missing", "invalid"},
     remote : {"ok", "auth_error", "open_error", "read_error"}]

Works(env) == AcquireCredentials(env) = "ok" /\ env.remote = "ok"

Source(env, data) ==
    [secrets |-> env.secrets, credFile |-> env.credFile, remote |-> env.remote,
     data |-> data]

SampleSheet ==
    <<Project(FullRow(1, "2024-01-01 00:00", <<"Acme", "News">>), ExpectedColumns),
      Project(FullRow(2, "2024-01-02 00:00", <<"Bolt", "PR">>), ExpectedColumns)>>

\* Every sheet behind a working environment, one sheet behind every environment
Sources ==
    { Source([secrets |-> "present", credFile |-> "missing", remote |-> "ok"], d) :
        d \in Sheets }
    \cup { Source(e, SampleSheet) : e \in Environments }

\* The sources of the cache machine
CacheSheets ==
    { <<>>,
      SampleSheet,
      <<Project(FullRow(1, "n/a", <<"Acme", "News">>), {"Date", "Title"}),
        Project(FullRow(2, "2024-01-01 12:00", <<"Acme", "News">>), {"Date", "Title"})>>,
      <<Project(FullRow(1, "n/a", <<"Bolt", "PR">>), ExpectedColumns)>> }

TieRanks(n) ==
    { f \in [1..n -> 1..n] : \A i, j \in 1..n : i # j => f[i] # f[j] }

-----------------------------------------------------------------------------
\* lastFetch: the source the invocation read, what it returned, when, and
\* whether the invocation before it read the same source
NoFetch == [present |-> FALSE, src |-> Source(CHOOSE e \in Environments : TRUE, <<>>),
            out |-> NoResult, at |-> 0, repeat |-> FALSE]

BlankPage ==
    [status |-> "none", df |-> EmptyFrame, msgs |-> <<>>, fetched |-> FALSE,
     sel |-> NoSelection, shown |-> <<>>, at |-> 0]

\* The page of a run that an exception ended
ErrorPage(r, fetched) ==
    [status |-> "error", df |-> r.df, msgs |-> r.msgs, fetched |-> fetched,
     sel |-> NoSelection, shown |-> <<>>, at |-> now]

OkPage(r, fetched, sel) ==
    [status |-> "ok", df |-> r.df, msgs |-> r.msgs, fetched |-> fetched,
     sel |-> sel, shown |-> ApplyFilters(r.df, sel), at |-> now]

\* The widget values a run with untouched widgets has
DefaultSelection(df) ==
    [company |-> "All", category |-> "All",
     dateRange |-> IF HasDateInput(df) /\ ~SidebarRaises(df)
                   THEN <<DayOf(DateMin(df)), DayOf(DateMax(df))>>
                   ELSE NoDateRange]

\* The widget values of the session, where the new options still have them
KeptSelection(df) ==
    LET d == DefaultSelection(df)
    IN  [company |-> IF page.sel.company \in Options(df, "Company")
                     THEN page.sel.company ELSE d.company,
         category |-> IF page.sel.category \in Options(df, "Category")
                      THEN page.sel.category ELSE d.category,
         dateRange |-> IF page.status = "ok" /\ HasDateInput(page.df) /\ HasDateInput(df)
                       THEN page.sel.dateRange ELSE d.dateRange]

\* One run of the script, lines 87-185.  clicked: the run was started by the
\* Refresh Data button, so st.button returns True at line 183.  sels: the
\* widget values the run may see.
Run(clicked, sels) ==
    LET hit     == CacheHit(cache, now)
        r       == IF hit THEN cache.value ELSE load_news_data(source)
        stored  == IF hit THEN cache ELSE CachePut(cache, r, now)
        crashed == r.raised \/ SidebarRaises(r.df)
    IN  /\ lastFetch' = IF hit THEN lastFetch
                        ELSE [present |-> TRUE, src |-> source, out |-> r, at |-> now,
                              repeat |-> lastFetch.present /\ lastFetch.src = source]
        /\ IF crashed
           THEN /\ page' = ErrorPage(r, ~hit)
                /\ cache' = stored
                /\ rerunRequested' = FALSE
           ELSE /\ \E sel \in sels : page' = OkPage(r, ~hit, sel)
                /\ cache' = IF clicked THEN CacheClear(stored) ELSE stored
                /\ rerunRequested' = clicked
        /\ UNCHANGED <<source, tieRank, now>>

Loaded == IF CacheHit(cache, now) THEN cache.value ELSE load_news_data(source)

\* The widget values after the user changed at most one widget
ChangedSelections(df) ==
    LET k == KeptSelection(df)
    IN  { s \in Selections(df) :
            \/ s.company = k.company /\ s.category = k.category
            \/ s.company = k.company /\ s.dateRange = k.dateRange
            \/ s.category = k.category /\ s.dateRange = k.dateRange }

\* A page load, or the run that a widget change starts
Render == Run(FALSE, ChangedSelections(Loaded.df))

\* A run with the session's widget values: a reload, or the rerun the button asked for
Rerun == Run(FALSE, {KeptSelection(Loaded.df)})

\* A click on "Refresh Data": the button exists once a run has reached line 183
RefreshClick ==
    /\ page.status = "ok"
    /\ ~rerunRequested
    /\ Run(TRUE, {KeptSelection(Loaded.df)})

\* Time passes
Delays == {1800, 3599}
Elapse ==
    /\ \E d \in Delays : now + d <= MaxTime /\ now' = now + d
    /\ UNCHANGED <<source, tieRank, cache, lastFetch, page, rerunRequested>>

\* The outside world changes: credentials or the service come and go
CacheEnvironments ==
    { [secrets |-> "present", credFile |-> "missing", remote |-> "ok"],
      [secrets |-> "present", credFile |-> "missing", remote |-> "open_error"],
      [secrets |-> "absent", credFile |-> "missing", remote |-> "ok"] }

EnvironmentChange ==
    /\ \E e \in CacheEnvironments : source' = Source(e, source.data)
    /\ source' # source
    /\ UNCHANGED <<tieRank, now, cache, lastFetch, page, rerunRequested>>

\* Somebody edits the spreadsheet
SheetEdit ==
    /\ \E d \in CacheSheets : source' = [source EXCEPT !.data = d]
    /\ source' # source
    /\ UNCHANGED <<tieRank, now, cache, lastFetch, page, rerunRequested>>

-----------------------------------------------------------------------------
TypeOK ==
    /\ now \in 0..MaxTime
    /\ rerunRequested \in BOOLEAN
    /\ page.status \in {"none", "ok", "error"}
    /\ cache.present \in BOOLEAN

\* The page over time: caching, refresh, a changing outside world
Init ==
    /\ source \in { Source(e, d) : e \in CacheEnvironments, d \in CacheSheets }
    /\ tieRank = [i \in 1..MaxRows |-> i]
    /\ now = 0
    /\ cache = NoCache
    /\ lastFetch = NoFetch
    /\ page = BlankPage
    /\ rerunRequested = FALSE

Next == Rerun \/ RefreshClick \/ Elapse \/ EnvironmentChange \/ SheetEdit

Spec == Init /\ [][Next]_vars

\* One source, any sheet: what load_news_data and the page make of it
InitLoad ==
    /\ source \in Sources
    /\ tieRank \in TieRanks(MaxRows)
    /\ now = 0
    /\ cache = NoCache
    /\ lastFetch = NoFetch
    /\ page = BlankPage
    /\ rerunRequested = FALSE

NextLoad == Render

SpecLoad == InitLoad /\ [][NextLoad]_vars

-----------------------------------------------------------------------------
\* Properties of load_news_data, stated on its most recent invocation

FetchSource == lastFetch.src
FetchIn     == lastFetch.src.data
FetchOut    == lastFetch.out
OutRows     == lastFetch.out.df.rows
UpstreamColumns == IF FetchIn = <<>> THEN {} ELSE DOMAIN FetchIn[1]
WorkingFetch == lastFetch.present /\ Works(FetchSource)

\* C1: load_news_data never raises; when credential acquisition, authentication,
\* opening the spreadsheet or reading the rows fails (both credential sources
\* absent included), it reports an error and returns a table with zero rows and
\* the columns Date, Company, Title, Link, Category.
C1_FailureFallback ==
    lastFetch.present =>
        /\ ~FetchOut.raised
        /\ ~Works(FetchSource) =>
              /\ FetchOut.df.cols = ExpectedColumns
              /\ FetchOut.df.rows = <<>>
              /\ HasError(FetchOut.msgs)

\* Both credential sources were absent and the call returned the empty table
C1_Witness ==
    /\ lastFetch.present
    /\ FetchSource.secrets = "absent" /\ FetchSource.credFile = "missing"
    /\ FetchOut.df = EmptyFrame
    /\ FetchOut.msgs = <<CredentialsError>>
    /\ page.status = "ok"

\* C2 as stated: whatever columns the sheet has, the returned table has exactly
\* the five expected columns.
C2_ExactlyFive ==
    lastFetch.present => FetchOut.df.cols = ExpectedColumns

\* C2, amended: the returned table has every one of the five expected columns;
\* its columns are the sheet's columns together with the five (the five alone
\* after a failure), and every row has a value for each of them.
C2_AtLeastFive ==
    lastFetch.present =>
        /\ ExpectedColumns \subseteq FetchOut.df.cols
        /\ FetchOut.df.cols =
              IF Works(FetchSource) THEN UpstreamColumns \cup ExpectedColumns
              ELSE ExpectedColumns
        /\ \A k \in DOMAIN OutRows : DOMAIN OutRows[k] = FetchOut.df.cols

\* A sheet with rows and only some of the five columns was read
C2_Witness ==
    /\ WorkingFetch
    /\ FetchIn # <<>>
    /\ UpstreamColumns = {"Date", "Title"}
    /\ FetchOut.df.cols = ExpectedColumns
    /\ Len(OutRows) = Len(FetchIn)

\* The cell of row k in column c is the empty text
EmptyText(df, k, c) ==
    IF c = "Date" /\ df.datetime THEN FALSE ELSE df.rows[k][c] = ""

RowOrders(n) == { f \in [1..n -> 1..n] : \A i, j \in 1..n : i # j => f[i] # f[j] }

\* The rows of the output are the rows of the input in the order p, with the
\* upstream columns other than Date unchanged
SameRows(p) ==
    \A k \in DOMAIN OutRows :
        \A c \in UpstreamColumns \ {"Date"} : OutRows[k][c] = FetchIn[p[k]][c]

\* C3 as stated: after a successful read every expected column that the sheet
\* lacks is there with the empty text in every row, the rows are the input's
\* rows (none dropped, none added), and the upstream columns other than Date
\* are unchanged.
C3_MissingAreEmptyText ==
    WorkingFetch =>
        /\ Len(OutRows) = Len(FetchIn)
        /\ \E p \in RowOrders(Len(FetchIn)) : SameRows(p)
        /\ \A k \in DOMAIN OutRows : \A c \in ExpectedColumns \ UpstreamColumns :
              EmptyText(FetchOut.df, k, c)

\* C3, amended: as stated for Company, Title, Link and Category; a Date column
\* that the sheet lacks is added too, but ends as the null timestamp in every row.
C3_MissingSynthesized ==
    WorkingFetch =>
        /\ Len(OutRows) = Len(FetchIn)
        /\ \E p \in RowOrders(Len(FetchIn)) : SameRows(p)
        /\ \A k \in DOMAIN OutRows : \A c \in ExpectedColumns \ UpstreamColumns :
              IF c = "Date" THEN OutRows[k][c] = NaT
              ELSE EmptyText(FetchOut.df, k, c)

\* The sheet had only Date and Title, and two rows that the sort exchanged
C3_Witness ==
    /\ WorkingFetch
    /\ UpstreamColumns = {"Date", "Title"}
    /\ Len(OutRows) = 2
    /\ OutRows[1]["Title"] = "t2" /\ OutRows[2]["Title"] = "t1"
    /\ \A k \in 1..2 : OutRows[k]["Company"] = "" /\ OutRows[k]["Link"] = ""
                       /\ OutRows[k]["Category"] = ""

\* The Date cells that pd.to_datetime understands
WellFormedDates == {"2024-01-01 00:00", "2024-01-01 12:00", "2024-01-02 00:00"}
BadDateRows ==
    IF "Date" \in UpstreamColumns
    THEN { i \in DOMAIN FetchIn : FetchIn[i]["Date"] \notin WellFormedDates }
    ELSE DOMAIN FetchIn
NullDateRows == { k \in DOMAIN OutRows : OutRows[k]["Date"] = NaT }

\* C4 as stated: a row whose Date is missing or malformed gets a defined date
\* (the current time); no output row has a null date.
C4_NoNullDate ==
    lastFetch.present => NullDateRows = {}

\* C4, amended: a missing or malformed Date raises no error and is reported as
\* no error; the row is kept and its date is the null timestamp, while every
\* well-formed Date becomes its timestamp.
C4_NullDateFallback ==
    WorkingFetch =>
        /\ ~FetchOut.raised /\ ~HasError(FetchOut.msgs)
        /\ Len(OutRows) = Len(FetchIn)
        /\ Cardinality(NullDateRows) = Cardinality(BadDateRows)
        /\ \A k \in DOMAIN OutRows : OutRows[k]["Date"] \in {NaT, 0, 12, 24}

\* A row with a malformed Date next to a row with a good one
C4_Witness ==
    /\ WorkingFetch
    /\ "Date" \in UpstreamColumns
    /\ Len(OutRows) = 2
    /\ Cardinality(BadDateRows) = 1
    /\ OutRows[1]["Date"] # NaT /\ OutRows[2]["Date"] = NaT

\* The source position of an output row: titles number the sheet's rows
SourcePos(r) == CHOOSE i \in 1..(MaxRows + 1) : TitleOf(i) = r["Title"]

\* C5: a table with rows comes out ordered by Date, most recent first (rows
\* without a date last), and rows with equal Date, two undated rows included,
\* keep the order they have in the sheet.
C5_StableDescending ==
    WorkingFetch =>
        \A k, l \in DOMAIN OutRows :
            k < l =>
                LET dk == OutRows[k]["Date"]
                    dl == OutRows[l]["Date"]
                IN  /\ dk >= dl
                    /\ dk = dl => SourcePos(OutRows[k]) < SourcePos(OutRows[l])

-----------------------------------------------------------------------------
\* Properties of the page

\* A step that is a run of the script: the clock and the outside world stand still
RunStep == now' = now /\ source' = source

\* The last invocation is younger than the ttl and no Refresh click followed it
FreshFetch == lastFetch.present /\ now - lastFetch.at < TTL /\ ~rerunRequested

\* C6: a run less than the TTL (3600 s) after the last fetch, with no Refresh
\* click in between, shows the cached result and does not contact the
\* spreadsheet; the first run after a Refresh click, or after the TTL has
\* expired, fetches again and shows what it fetched.
C6_CacheAndRefresh ==
    [][RunStep =>
          IF FreshFetch
          THEN /\ ~page'.fetched
               /\ lastFetch' = lastFetch
               /\ page'.df = lastFetch.out.df
          ELSE /\ page'.fetched
               /\ lastFetch'.at = now /\ lastFetch'.src = source
               /\ page'.df = load_news_data(source).df]_vars

\* A run 3599 s after the fetch showed the cached table although the source had
\* changed, and an earlier Refresh click had led to that fetch
C6_Witness ==
    /\ page.status = "ok" /\ ~page.fetched
    /\ page.at - lastFetch.at = 3599
    /\ lastFetch.at > 0 /\ lastFetch.at < TTL /\ lastFetch.repeat
    /\ source # lastFetch.src
    /\ page.df = lastFetch.out.df
    /\ page.df # load_news_data(source).df

\* C7: whatever table load_news_data returns, the sidebar, the filters and the
\* display complete without an unhandled exception.
C7_NoFatalError == page.status # "error"

\* The rows the claim says are displayed
Displayed(df, sel) ==
    LET keep(r) ==
            /\ sel.company = "All" \/ r["Company"] = sel.company
            /\ sel.category = "All" \/ r["Category"] = sel.category
            /\ Len(sel.dateRange) = 2 =>
                  /\ r["Date"] # NaT
                  /\ sel.dateRange[1] * 24 <= r["Date"]
                  /\ r["Date"] < (sel.dateRange[2] + 1) * 24
    IN  SelectSeq(df.rows, keep)

\* C9: the displayed rows are the loaded rows that satisfy all active filters,
\* in the loaded order: the company unless 'All', the category unless 'All',
\* and with a two-ended date range the calendar date within [start, end]; a row
\* without a date is then not displayed, and a one-ended range filters nothing.
C9_Filters ==
    page.status = "ok" =>
        /\ page.shown = Displayed(page.df, page.sel)
        /\ Len(page.sel.dateRange) = 2 =>
              \A k \in DOMAIN page.shown : page.shown[k]["Date"] # NaT
        /\ (Len(page.sel.dateRange) = 1 /\ page.sel.company = "All"
              /\ page.sel.category = "All") => page.shown = page.df.rows

\* A one-day range kept the row of that day at noon and left out an undated row
C9_Witness ==
    /\ page.status = "ok"
    /\ page.sel.dateRange = <<0, 0>>
    /\ Len(page.df.rows) = 2 /\ Len(page.shown) = 1
    /\ page.shown[1]["Date"] = 12
    /\ page.df.rows[2]["Date"] = NaT

C10_FailureCached ==
    [][(RunStep /\ lastFetch.present /\ HasError(lastFetch.out.msgs)) =>
          /\ (now - lastFetch.at < TTL /\ ~rerunRequested) =>
                /\ page'.df = EmptyFrame /\ page'.msgs = lastFetch.out.msgs
                /\ ~page'.fetched
                /\ lastFetch' = lastFetch
          /\ lastFetch' # lastFetch => (now - lastFetch.at >= TTL \/ rerunRequested)]_vars

\* The service was back with a sheet of two rows, and a run 3599 s after the
\* failed fetch still showed the empty table and the error
C10_Witness ==
    /\ page.status = "ok" /\ ~page.fetched
    /\ page.df = EmptyFrame /\ HasError(page.msgs)
    /\ page.at = lastFetch.at + 3599 /\ now = page.at
    /\ Works(source) /\ Len(source.data) = 2
    /\ ~Works(lastFetch.src)

====
